---- MODULE Spec2Model ----
(***************************************************************************)
(* Model of util/tracing/trace_to_csv.c: the converter of a Lingua Franca  *)
(* binary trace file (.lft) to a CSV text file.                            *)
(*                                                                         *)
(* The input file is modelled by the results of the reads the program      *)
(* performs on it, in the order it performs them: every byte file is       *)
(* exactly one such sequence of read results, because the program reads    *)
(* the file strictly sequentially and decides the width of the next item   *)
(* from what it has read so far.  The header is drawn as a prefix of a     *)
(* typed header; the body is drawn call by call of read_trace.             *)
(***************************************************************************)
EXTENDS Integers, Sequences, FiniteSets, TLC

(***************************************************************************)
(* Bounds of the model.                                                    *)
(***************************************************************************)
\* Capacity of the global record buffer trace[] (trace.h), scaled down.
TRACE_BUFFER_CAPACITY == 2
\* Number of entries of trace_event_names[] (trace.h), scaled down.
NumEventNames == 2
\* Largest object count a header declares.
MaxObjects == 2
\* Total number of records the file body holds.
MaxRecords == 3
\* Number of read_trace calls that find a batch length in the file.
MaxCalls == 2
\* Width in bits of size_t, scaled down (TLC's integers are 32 bits wide).
SizeBits == 16

(***************************************************************************)
(* Program constants.                                                      *)
(***************************************************************************)
BUFFER_SIZE == 1024

\* (size_t) n for an int n.
ToSizeT(n) == n % (2 ^ SizeBits)

\* A null pointer where the program holds a char*.
NullPtr == <<-1>>

\* The characters of a C string literal, as character codes.
NO_DESCRIPTION_FOUND ==
    <<78, 79, 32, 68, 69, 83, 67, 82, 73, 80, 84, 73, 79, 78, 32, 70, 79, 85, 78, 68>>
NoneText == <<110, 111, 110, 101>>
CsvHeaderRow == "Event, Reactor, Reaction, Worker, Elapsed Logical Time, Microstep, Elapsed Physical Time"

(***************************************************************************)
(* Input domains.                                                          *)
(***************************************************************************)
StartTimes == {1000}
ObjectCounts == (-1) .. MaxObjects
\* Header table entries: an object identity and its description's characters.
EntryPool ==
    { [object |-> 1, description |-> <<65>>],
      [object |-> 1, description |-> <<66, 67>>] }

ZeroRecord ==
    [event_type |-> 0, self_struct |-> 0, reaction_number |-> 0, worker |-> 0,
     logical_time |-> 0, microstep |-> 0, physical_time |-> 0]
RecordPool ==
    { [event_type |-> 0, self_struct |-> 1, reaction_number |-> -1, worker |-> 0,
       logical_time |-> 1500, microstep |-> 0, physical_time |-> 1600],
      [event_type |-> 1, self_struct |-> 2, reaction_number |-> 7, worker |-> 1,
       logical_time |-> 1500, microstep |-> 1, physical_time |-> 1700],
      [event_type |-> 0, self_struct |-> 3, reaction_number |-> 1234, worker |-> 0,
       logical_time |-> 2000, microstep |-> 0, physical_time |-> 2100],
      [event_type |-> NumEventNames, self_struct |-> 1, reaction_number |-> 0, worker |-> 1,
       logical_time |-> 2000, microstep |-> 1, physical_time |-> 2200] }
\* Values the model draws for a partially read (indeterminate) record.
IndeterminateRecords ==
    { r \in RecordPool : r.reaction_number \in {0, 7} }
\* Batch lengths a file may hold: negative, zero, in range, over capacity.
BatchLengths == (-1) .. (TRACE_BUFFER_CAPACITY + 1)

SeqsUpTo(S, n) == UNION { [1..k -> S] : k \in 0..n }

Min(a, b) == IF a <= b THEN a ELSE b

VARIABLES
    pc,                       \* position in main
    status,                   \* "running", "exit" (exit() or return from main), "crash"
    exitCode,                 \* the process exit code once status = "exit"
    cause,                    \* which statement ended the process
    fileClosed,               \* trace_file was passed to fclose
    atEOF,                    \* the stream's end-of-file indicator is set
    start_time,
    object_descriptions,      \* the table; <<>> with tableNull for NULL
    tableNull,
    object_descriptions_size,
    header_ret,               \* what read_header returned (a size_t)
    trace,                    \* the global record buffer, indices 0..CAPACITY-1
    csv,                      \* lines written to the CSV file
    batches,                  \* history: what each read_trace call read
    requested,                \* history: nmemb of the last fread into trace[]
    lastRead,                 \* history: how the last batch-length read ended
    oob                       \* history: trace_event_names was indexed out of range

vars == << pc, status, exitCode, cause, fileClosed, atEOF, start_time,
           object_descriptions, tableNull, object_descriptions_size, header_ret,
           trace, csv, batches, requested, lastRead, oob >>

(***************************************************************************)
(* get_description: linear scan, first match wins.                         *)
(***************************************************************************)
RECURSIVE ScanFrom(_, _, _, _)
ScanFrom(table, size, object, i) ==
    IF i >= size THEN NO_DESCRIPTION_FOUND
    ELSE IF table[i + 1].object = object THEN table[i + 1].description
    ELSE ScanFrom(table, size, object, i + 1)

RECURSIVE ScanLast(_, _, _, _)
ScanLast(table, size, object, i) ==
    IF i >= size THEN NO_DESCRIPTION_FOUND
    ELSE LET rest == ScanLast(table, size, object, i + 1)
         IN IF rest # NO_DESCRIPTION_FOUND THEN rest
            ELSE IF table[i + 1].object = object THEN table[i + 1].description
            ELSE NO_DESCRIPTION_FOUND

get_description_last(table, size, object) == ScanLast(table, size, object, 0)

get_description(table, size, object) == ScanFrom(table, size, object, 0)

(***************************************************************************)
(* read_header, as a function of the items the header reads find.  s is    *)
(* the sequence of items the file holds from its start; a read past its    *)
(* end is a short read (fewer bytes than the item's size remain).          *)
(***************************************************************************)
\* fread(&x, size, 1, f) at item position pos.
Fread1(s, pos) ==
    IF pos <= Len(s) THEN [items_read |-> 1, value |-> s[pos]]
    ELSE [items_read |-> 0, value |-> 0]

\* _LF_TRACE_FAILURE (trace.h): the enclosing function returns -1.
TraceFailure(st, size, table, isNull) ==
    [ret |-> ToSizeT(-1), short |-> TRUE, start_time |-> st, size |-> size,
     table |-> table, tableNull |-> isNull]

\* The description loop: characters up to a null or BUFFER_SIZE - 1 of them.
\* Yields the string and the position after it, or ok = FALSE on a short read.
RECURSIVE ReadDescription(_, _, _, _)
ReadDescription(s, pos, character, buf) ==
    IF character # 0 /\ Len(buf) < BUFFER_SIZE - 1
    THEN LET r == Fread1(s, pos)
         IN IF r.items_read # 1 THEN [ok |-> FALSE, pos |-> pos, text |-> buf]
            ELSE ReadDescription(s, pos + 1, r.value, Append(buf, character))
    ELSE [ok |-> TRUE, pos |-> pos, text |-> buf]

RECURSIVE ReadEntries(_, _, _, _, _, _)
ReadEntries(s, pos, i, st, size, table) ==
    IF i >= size
    THEN [ret |-> ToSizeT(size), short |-> FALSE, start_time |-> st, size |-> size,
          table |-> table, tableNull |-> FALSE]
    ELSE LET ro == Fread1(s, pos)
         IN IF ro.items_read # 1 THEN TraceFailure(st, size, table, FALSE)
            ELSE LET t1 == [table EXCEPT ![i + 1].object = ro.value]
                     rc == Fread1(s, pos + 1)
                 IN IF rc.items_read # 1 THEN TraceFailure(st, size, t1, FALSE)
                    ELSE LET d == ReadDescription(s, pos + 2, rc.value, <<>>)
                         IN IF ~d.ok THEN TraceFailure(st, size, t1, FALSE)
                            ELSE ReadEntries(s, d.pos, i + 1, st, size,
                                     [t1 EXCEPT ![i + 1].description = d.text])

\* calloc(size, ...): the zeroed table, for size >= 0.
ZeroTable(size) ==
    [k \in 1..size |-> [object |-> 0, description |-> NullPtr]]

read_header(s, allocOK, st0, size0) ==
    LET r1 == Fread1(s, 1)
    IN IF r1.items_read # 1 THEN TraceFailure(st0, size0, <<>>, TRUE)
       ELSE LET r2 == Fread1(s, 2)
            IN IF r2.items_read # 1 THEN TraceFailure(r1.value, size0, <<>>, TRUE)
               ELSE IF ~allocOK
                    THEN [ret |-> ToSizeT(-1), short |-> FALSE, start_time |-> r1.value,
                          size |-> r2.value, table |-> <<>>, tableNull |-> TRUE]
                    ELSE ReadEntries(s, 3, 0, r1.value, r2.value, ZeroTable(r2.value))

\* The items of a typed header: start time, count, then the entries.
RECURSIVE EntryItems(_)
EntryItems(es) ==
    IF es = <<>> THEN <<>>
    ELSE <<Head(es).object>> \o Head(es).description \o <<0>> \o EntryItems(Tail(es))

HeaderItems(st, n, es) == <<st, n>> \o EntryItems(es)

\* Every header the model draws: a typed header (a count n, negative or not,
\* and one entry per counted object), cut after any number of items.
HeaderStreams ==
    UNION { UNION { { SubSeq(HeaderItems(st, n, es), 1, k) :
                        k \in 0..Len(HeaderItems(st, n, es)) } :
                    es \in [1..n -> EntryPool] } :
            st \in StartTimes, n \in ObjectCounts }

\* calloc: fails for a count whose size_t product overflows (a negative count),
\* may return NULL or not for a count of zero, may fail for lack of memory.
AllocOutcomes(s) ==
    IF Len(s) >= 2 /\ s[2] < 0 THEN {FALSE} ELSE BOOLEAN

(***************************************************************************)
(* read_trace: the projection of a record to a CSV line.                   *)
(***************************************************************************)
\* The external name table of trace.h, one name per event type.
trace_event_names == [i \in 0..(NumEventNames - 1) |-> <<"event", i>>]
\* What an out-of-range read of the name table may print.
GarbageName == <<"garbage", 0>>

ValidEventType(e) == e >= 0 /\ e < NumEventNames

\* printf's %d of a non-negative int, as character codes.
RECURSIVE Decimal(_)
Decimal(n) ==
    IF n < 10 THEN <<48 + n>> ELSE Append(Decimal(n \div 10), 48 + (n % 10))

\* snprintf(str, size, ...): at most size - 1 characters are written.
Snprintf(size, text) == SubSeq(text, 1, Min(Len(text), size - 1))

reaction_name(n) ==
    IF n >= 0 THEN Snprintf(4, Decimal(n)) ELSE NoneText

\* The line fprintf writes for one record.
RowOf(rec, table, size, st) ==
    [event |-> IF ValidEventType(rec.event_type)
               THEN trace_event_names[rec.event_type] ELSE GarbageName,
     reactor |-> get_description(table, size, rec.self_struct),
     reaction |-> reaction_name(rec.reaction_number),
     worker |-> rec.worker,
     elapsed_logical |-> rec.logical_time - st,
     microstep |-> rec.microstep,
     elapsed_physical |-> rec.physical_time - st]

\* trace[i].  The array is a zero-initialised global followed by other
\* zero-initialised globals; the loop of line 168 stays below the capacity.
TraceAt(buf, i) == IF i \in DOMAIN buf THEN buf[i] ELSE ZeroRecord

\* The lines of the loop for (i = 0; i < stop; i++) over the buffer buf.
RowsFromOne(buf, stop, table, size, st) ==
    [k \in 1..stop |-> RowOf(TraceAt(buf, k), table, size, st)]

RowsOf(buf, stop, table, size, st) ==
    [k \in 1..stop |-> RowOf(TraceAt(buf, k - 1), table, size, st)]

\* The guard of line 160.
ExceedsCapacityOffByOne(n) == n > TRACE_BUFFER_CAPACITY + 1

ExceedsCapacity(n) == n > TRACE_BUFFER_CAPACITY

\* The test of line 215 on read_header's size_t result.
HeaderOK(ret) == ret >= 0

(***************************************************************************)
(* The state after construction: globals zeroed, main not yet entered.     *)
(***************************************************************************)
Init ==
    /\ pc = "main"
    /\ status = "running"
    /\ exitCode = -1
    /\ cause = "none"
    /\ fileClosed = FALSE
    /\ atEOF = FALSE
    /\ start_time = 0
    /\ object_descriptions = <<>>
    /\ tableNull = TRUE
    /\ object_descriptions_size = 0
    /\ header_ret = 0
    /\ trace = [i \in 0..(TRACE_BUFFER_CAPACITY - 1) |-> ZeroRecord]
    /\ csv = <<>>
    /\ batches = <<>>
    /\ requested = 0
    /\ lastRead = "none"
    /\ oob = FALSE

\* The argument of each exit() of the program, and main's return value.
ExitCodes ==
    [usage |-> 0, no_trace_file |-> 2, no_output_file |-> 2,
     read_error |-> 3, garbled |-> 4, returned |-> 0]

\* exit(ExitCodes[why]), or main returning.
Exit(why) ==
    /\ pc' = "exited"
    /\ status' = "exit"
    /\ exitCode' = ExitCodes[why]
    /\ cause' = why

\* The process is killed by a signal.
Crash(why) ==
    /\ pc' = "exited"
    /\ status' = "crash"
    /\ exitCode' = exitCode
    /\ cause' = why

Goto(l) ==
    /\ pc' = l
    /\ UNCHANGED << status, exitCode, cause >>

(***************************************************************************)
(* main                                                                    *)
(***************************************************************************)
MainUsage ==
    /\ pc = "main"
    /\ \E argc \in 1..3 :
          IF argc # 2 THEN Exit("usage") ELSE Goto("open_trace")
    /\ UNCHANGED << fileClosed, atEOF, start_time, object_descriptions, tableNull,
                    object_descriptions_size, header_ret, trace, csv, batches,
                    requested, lastRead, oob >>

MainOpenTrace ==
    /\ pc = "open_trace"
    /\ \E opened \in BOOLEAN :
          IF ~opened THEN Exit("no_trace_file") ELSE Goto("open_csv")
    /\ UNCHANGED << fileClosed, atEOF, start_time, object_descriptions, tableNull,
                    object_descriptions_size, header_ret, trace, csv, batches,
                    requested, lastRead, oob >>

MainOpenCsv ==
    /\ pc = "open_csv"
    /\ \E opened \in BOOLEAN :
          IF ~opened THEN Exit("no_output_file") ELSE Goto("read_header")
    /\ UNCHANGED << fileClosed, atEOF, start_time, object_descriptions, tableNull,
                    object_descriptions_size, header_ret, trace, csv, batches,
                    requested, lastRead, oob >>

\* The call of read_header.  After a short read _LF_TRACE_FAILURE has run;
\* whether it closes the stream is not visible in this file, so both happen.
MainReadHeader ==
    /\ pc = "read_header"
    /\ \E s \in HeaderStreams : \E allocOK \in AllocOutcomes(s) :
          LET h == read_header(s, allocOK, start_time, object_descriptions_size)
          IN /\ start_time' = h.start_time
             /\ object_descriptions_size' = h.size
             /\ object_descriptions' = h.table
             /\ tableNull' = h.tableNull
             /\ header_ret' = h.ret
             /\ atEOF' = h.short
             /\ fileClosed' \in (IF h.short THEN BOOLEAN ELSE {FALSE})
    /\ Goto("check_header")
    /\ UNCHANGED << trace, csv, batches, requested, lastRead, oob >>

\* if (read_header(trace_file) >= 0) { fprintf(csv_file, header line); ...
MainCheckHeader ==
    /\ pc = "check_header"
    /\ IF HeaderOK(header_ret)
       THEN csv' = Append(csv, CsvHeaderRow) /\ Goto("loop")
       ELSE csv' = csv /\ Goto("cleanup")
    /\ UNCHANGED << fileClosed, atEOF, start_time, object_descriptions, tableNull,
                    object_descriptions_size, header_ret, trace, batches,
                    requested, lastRead, oob >>

(***************************************************************************)
(* read_trace, one call of it with main's loop test.                       *)
(***************************************************************************)
\* Records the body has yielded so far.
RECURSIVE Consumed(_)
Consumed(bs) ==
    IF bs = <<>> THEN <<>> ELSE Consumed(SubSeq(bs, 1, Len(bs) - 1)) \o bs[Len(bs)].recs

\* The buffer after fread copied recs, and the bytes of a partial record,
\* to its start.  A partially read element has an indeterminate value.
CopyInto(buf, recs, part) ==
    [i \in 0..(TRACE_BUFFER_CAPACITY - 1) |->
        IF i < Len(recs) THEN recs[i + 1]
        ELSE IF part.has /\ i = Len(recs) THEN part.rec
        ELSE buf[i]]

\* What may follow the last full record when fewer than nmemb are in the file.
PartialChoices(short) ==
    {[has |-> FALSE, rec |-> ZeroRecord]}
      \cup (IF short THEN {[has |-> TRUE, rec |-> r] : r \in IndeterminateRecords} ELSE {})

\* object_descriptions[0] is read through a null pointer.
NullDeref == tableNull /\ object_descriptions_size > 0

OutOfRangeAt(buf, n) ==
    {i \in 0..(n - 1) : ~ValidEventType(TraceAt(buf, i).event_type)}

\* How the row loop of a batch of n records may end: all n lines written, or
\* the process killed while formatting line i (a null table, or the garbage
\* pointer an out-of-range read of trace_event_names yields).
StopChoices(buf, n) ==
    IF n <= 0 THEN {[rows |-> 0, crashed |-> FALSE]}
    ELSE IF NullDeref THEN {[rows |-> 0, crashed |-> TRUE]}
    ELSE {[rows |-> n, crashed |-> FALSE]}
           \cup {[rows |-> i, crashed |-> TRUE] : i \in OutOfRangeAt(buf, n)}

\* read_trace on a stream that was closed: the FILE object is dangling.
ReadTraceClosed ==
    /\ pc = "loop"
    /\ fileClosed
    /\ \E outcome \in {"crash", "error", "eof"} :
          /\ lastRead' = outcome
          /\ CASE outcome = "crash" -> Crash("dangling_file")
               [] outcome = "error" -> Exit("read_error")
               [] outcome = "eof" -> Goto("cleanup")
    /\ UNCHANGED << fileClosed, atEOF, start_time, object_descriptions, tableNull,
                    object_descriptions_size, header_ret, trace, csv, batches,
                    requested, oob >>

\* The batch-length read returns no item: the file ended at the boundary
\* ("eof"), ended inside the 4 bytes ("partial"), or the read failed ("error").
\* fread sets the end-of-file indicator in both of the first two.
ReadTraceNoLength ==
    /\ pc = "loop"
    /\ ~fileClosed
    /\ \E r \in (IF atEOF THEN {"eof"} ELSE {"eof", "partial", "error"}) :
          LET items_read == 0
              feof == r \in {"eof", "partial"}
          IN /\ lastRead' = r
             /\ atEOF' = (atEOF \/ feof)
             /\ IF feof THEN Goto("cleanup") ELSE Exit("read_error")
    /\ UNCHANGED << fileClosed, start_time, object_descriptions, tableNull,
                    object_descriptions_size, header_ret, trace, csv, batches,
                    requested, oob >>

\* The batch-length read returns trace_length = n.
ReadTraceBatch ==
    /\ pc = "loop"
    /\ ~fileClosed
    /\ ~atEOF
    /\ Len(batches) < MaxCalls
    /\ \E n \in BatchLengths :
        /\ lastRead' = "item"
        /\ IF ExceedsCapacity(n)
           THEN /\ Exit("garbled")
                /\ batches' = Append(batches, [len |-> n, recs |-> <<>>, partial |-> FALSE])
                /\ UNCHANGED << atEOF, trace, csv, requested, oob >>
           ELSE LET nmemb == ToSizeT(n)
                    room == MaxRecords - Len(Consumed(batches))
                IN \E recs \in SeqsUpTo(RecordPool, Min(nmemb, room)) :
                   \E part \in PartialChoices(Len(recs) < nmemb) :
                   \E overrunCrash \in BOOLEAN :
                     LET copied == Len(recs) + (IF part.has THEN 1 ELSE 0)
                         overrun == copied > TRACE_BUFFER_CAPACITY
                         buf == CopyInto(trace, recs, part)
                         items_read == 1 + Len(recs)
                     IN /\ requested' = nmemb
                        /\ atEOF' = (Len(recs) < nmemb)
                        /\ trace' = buf
                        /\ batches' = Append(batches,
                               [len |-> n, recs |-> recs, partial |-> part.has])
                        /\ overrunCrash => overrun
                        /\ IF overrun /\ overrunCrash
                           THEN /\ Crash("buffer_overrun")
                                /\ UNCHANGED << csv, oob >>
                           ELSE \E stop \in StopChoices(buf, n) :
                                  /\ csv' = csv \o RowsOf(buf, stop.rows, object_descriptions,
                                                       object_descriptions_size, start_time)
                                  /\ oob' = (oob \/ \E i \in OutOfRangeAt(buf, n) :
                                                       i < stop.rows \/ (stop.crashed /\ i = stop.rows))
                                  /\ IF stop.crashed THEN Crash("bad_pointer")
                                     ELSE IF items_read # 0 THEN Goto("loop")
                                     ELSE Goto("cleanup")
    /\ UNCHANGED << fileClosed, start_time, object_descriptions, tableNull,
                    object_descriptions_size, header_ret >>

\* The end of main: the descriptions are freed, both streams closed, and
\* main returns (0, by falling off its end).
MainCleanup ==
    /\ pc = "cleanup"
    /\ \E doubleCloseCrash \in BOOLEAN :
          /\ doubleCloseCrash => (fileClosed /\ ~NullDeref)
          /\ IF NullDeref THEN Crash("null_table")
             ELSE IF doubleCloseCrash THEN Crash("double_close")
             ELSE Exit("returned")
    /\ fileClosed' = TRUE
    /\ UNCHANGED << atEOF, start_time, object_descriptions, tableNull,
                    object_descriptions_size, header_ret, trace, csv, batches,
                    requested, lastRead, oob >>

Next ==
    \/ MainUsage
    \/ MainOpenTrace
    \/ MainOpenCsv
    \/ MainReadHeader
    \/ MainCheckHeader
    \/ ReadTraceClosed
    \/ ReadTraceNoLength
    \/ ReadTraceBatch
    \/ MainCleanup

Spec == Init /\ [][Next]_vars

(***************************************************************************)
(* Notions the properties below are stated with.                           *)
(***************************************************************************)
\* read_header has returned.
HeaderRan ==
    \/ pc \in {"check_header", "loop", "cleanup"}
    \/ pc = "exited" /\ cause \notin {"usage", "no_trace_file", "no_output_file"}

HeaderFailed == HeaderRan /\ header_ret = ToSizeT(-1)

HeaderSucceeded == HeaderRan /\ header_ret # ToSizeT(-1)

LastBatch == batches[Len(batches)]

\* Every batch read so far is one of a well-formed file: its length is in
\* 1..capacity, all its records are in the file, their event types are valid.
WellFormedBatches ==
    \A i \in 1..Len(batches) :
        /\ batches[i].len > 0
        /\ batches[i].len <= TRACE_BUFFER_CAPACITY
        /\ Len(batches[i].recs) = batches[i].len
        /\ \A j \in 1..Len(batches[i].recs) : ValidEventType(batches[i].recs[j].event_type)

WellFormedRun == HeaderSucceeded /\ WellFormedBatches

\* Every batch read so far has a length in 1..capacity and all its records.
CompleteBatches ==
    \A i \in 1..Len(batches) :
        /\ batches[i].len > 0
        /\ batches[i].len <= TRACE_BUFFER_CAPACITY
        /\ Len(batches[i].recs) = batches[i].len

RECURSIVE SumLens(_)
SumLens(bs) ==
    IF bs = <<>> THEN 0
    ELSE SumLens(Tail(bs)) + (IF Head(bs).len > 0 /\ Head(bs).len <= TRACE_BUFFER_CAPACITY
                              THEN Head(bs).len ELSE 0)

\* "none", or the decimal text of a non-negative reaction number in full.
reaction_name_full(n) ==
    IF n >= 0 THEN Decimal(n) ELSE NoneText

\* The lowest-index entry of the table with the given identity, if any.
FirstMatch(object) ==
    LET hits == {i \in 1..object_descriptions_size : object_descriptions[i].object = object}
    IN IF hits = {} THEN NO_DESCRIPTION_FOUND
       ELSE object_descriptions[CHOOSE i \in hits : \A k \in hits : i <= k].description

(***************************************************************************)
(* C1: a batch-length read that is short because the file ends inside the  *)
(* 4-byte field ends the program in a fatal error (nonzero exit), not in   *)
(* the normal end-of-stream outcome.  Stated for the runs whose header was *)
(* read successfully, so that a violation owes nothing to a failed header. *)
(***************************************************************************)
C1_TruncatedLengthIsFatal ==
    (HeaderSucceeded /\ lastRead = "partial") => (status = "exit" /\ exitCode # 0)

(***************************************************************************)
(* C2: whenever read_header fails, main writes no CSV header row and never *)
(* calls read_trace.                                                       *)
(***************************************************************************)
C2_NothingDecodedAfterHeaderFailure ==
    HeaderFailed => (csv = <<>> /\ batches = <<>> /\ lastRead = "none")

(***************************************************************************)
(* C3: the event-name table is never indexed out of range, and no row is   *)
(* written for a record whose event_type is not a valid index.  Stated for *)
(* the runs whose header was read successfully and whose batches are all   *)
(* complete, so that every record decoded is a record of the file.         *)
(***************************************************************************)
C3_NameTableIndexInRange ==
    (HeaderSucceeded /\ CompleteBatches) =>
        /\ ~oob
        /\ \A k \in 2..Len(csv) : csv[k].event # GarbageName

(***************************************************************************)
(* C4: for a well-formed file (header read successfully, batches of        *)
(* lengths n1..nk in 1..capacity with all records present), the CSV is the *)
(* header row once followed by exactly n1+...+nk rows, the j-th being the  *)
(* projection of the j-th record of the file, and the loop ends normally   *)
(* (exit code 0) on the clean end of file.                                 *)
(***************************************************************************)
C4_RowsInFileOrder ==
    WellFormedRun =>
        /\ status # "crash"
        /\ pc = "check_header" => csv = <<>>
        /\ pc # "check_header" =>
              /\ csv = <<CsvHeaderRow>> \o
                       [j \in 1..Len(Consumed(batches)) |->
                           RowOf(Consumed(batches)[j], object_descriptions,
                                 object_descriptions_size, start_time)]
              /\ Len(csv) = 1 + SumLens(batches)
        /\ lastRead = "eof" =>
              \/ pc = "cleanup"
              \/ status = "exit" /\ exitCode = 0

C4_Witness ==
    /\ WellFormedRun
    /\ Len(batches) = 2
    /\ batches[1].len = 1
    /\ batches[2].len = 2
    /\ Len(csv) = 4
    /\ csv[3] # csv[4]
    /\ lastRead = "eof"
    /\ status = "exit"
    /\ exitCode = 0

(***************************************************************************)
(* C5: a read_trace call that reads a batch length above the capacity      *)
(* exits with the corruption code without copying anything into the record *)
(* buffer and without writing a row; the rows of all earlier batches are   *)
(* already in the CSV.                                                     *)
(***************************************************************************)
C5_OversizedBatchRejectedFirst ==
    [][ ( /\ Len(batches') = Len(batches) + 1
          /\ batches'[Len(batches')].len > TRACE_BUFFER_CAPACITY )
        => ( /\ status' = "exit"
             /\ exitCode' = 4
             /\ batches'[Len(batches')].recs = <<>>
             /\ trace' = trace
             /\ requested' = requested
             /\ csv' = csv
             /\ Len(csv) = 1 + SumLens(batches) ) ]_vars

C5_Witness ==
    /\ Len(batches) = 2
    /\ LastBatch.len > TRACE_BUFFER_CAPACITY
    /\ batches[1].len = 2
    /\ Len(csv) = 3
    /\ status = "exit"
    /\ exitCode = 4

(***************************************************************************)
(* C6: the Reaction column is "none" for a negative reaction_number and    *)
(* otherwise the full decimal text of reaction_number.                     *)
(***************************************************************************)
C6_ReactionRenderedInFull ==
    (WellFormedRun /\ pc # "check_header") =>
        \A j \in 1..Len(Consumed(batches)) :
            j + 1 <= Len(csv) =>
                csv[j + 1].reaction = reaction_name_full(Consumed(batches)[j].reaction_number)

(***************************************************************************)
(* C7: for every table a successful read_header built and every identity,  *)
(* get_description yields the description of the lowest-index entry with   *)
(* that identity, or "NO DESCRIPTION FOUND" when there is none; the        *)
(* Reactor column of every row is that value; the table is never changed   *)
(* once read_header has returned.                                          *)
(***************************************************************************)
C7_FirstMatchWins ==
    /\ [](HeaderSucceeded =>
            /\ \A object \in 0..3 :
                  get_description(object_descriptions, object_descriptions_size, object)
                      = FirstMatch(object)
            /\ WellFormedBatches /\ pc # "check_header" =>
                  \A j \in 1..Len(Consumed(batches)) :
                      csv[j + 1].reactor = FirstMatch(Consumed(batches)[j].self_struct))
    /\ [][HeaderRan => UNCHANGED << object_descriptions, object_descriptions_size,
                                    tableNull >>]_vars

C7_Witness ==
    /\ HeaderSucceeded
    /\ object_descriptions_size = 2
    /\ object_descriptions[1].object = object_descriptions[2].object
    /\ object_descriptions[1].description # object_descriptions[2].description
    /\ \E k \in 2..Len(csv) : csv[k].reactor = object_descriptions[1].description
    /\ \E k \in 2..Len(csv) : csv[k].reactor = NO_DESCRIPTION_FOUND

(***************************************************************************)
(* C8: the exit code separates the outcome categories: the codes of "no    *)
(* input file", "cannot create output file", "corrupt batch length" and    *)
(* "malformed header/record read" are nonzero and pairwise distinct, and a *)
(* malformed header never ends with exit code 0.                           *)
(***************************************************************************)
ErrorCategories == {"no_trace_file", "no_output_file", "garbled", "read_error"}

C8_ExitCodesSeparateCategories ==
    status = "exit" =>
        /\ cause \in ErrorCategories =>
              /\ exitCode # 0
              /\ \A other \in ErrorCategories \ {cause} : exitCode # ExitCodes[other]
        /\ HeaderFailed => exitCode # 0

(***************************************************************************)
(* C9: a batch of declared length n in 0..capacity of which only m < n     *)
(* full records are in the file does not fail: n rows are written, the     *)
(* first m from the records read, the other n - m from what the record     *)
(* buffer held before the read, and the stream is then at end of file.     *)
(* Stated for the runs whose header was read successfully and for a file   *)
(* that ends exactly after the m-th record.                                *)
(***************************************************************************)
C9_ShortBatchDecodedFromStaleBuffer ==
    [][ ( /\ HeaderSucceeded
          /\ Len(batches') = Len(batches) + 1
          /\ ~batches'[Len(batches')].partial
          /\ batches'[Len(batches')].len >= 0
          /\ batches'[Len(batches')].len <= TRACE_BUFFER_CAPACITY
          /\ Len(batches'[Len(batches')].recs) < batches'[Len(batches')].len )
        => LET n == batches'[Len(batches')].len
               recs == batches'[Len(batches')].recs
           IN /\ status' = "running"
              /\ pc' = "loop"
              /\ atEOF'
              /\ csv' = csv \o
                    [k \in 1..n |->
                        RowOf(IF k <= Len(recs) THEN recs[k] ELSE trace[k - 1],
                              object_descriptions, object_descriptions_size, start_time)]
      ]_vars

(***************************************************************************)
(* C10: the number of records read_trace asks fread to copy into trace[]   *)
(* never exceeds TRACE_BUFFER_CAPACITY, whatever batch length was read.    *)
(* Stated for the runs whose header was read successfully.                 *)
(***************************************************************************)
C10_RequestWithinCapacity ==
    HeaderSucceeded => requested <= TRACE_BUFFER_CAPACITY

====
